---------------------------- MODULE Spec2Model ----------------------------
(***************************************************************************)
(* A model of ofx::HTTP::JSONWebToken (libs/ofxHTTP/src/JSONWebToken.cpp): *)
(* the claims documents (header, payload), their setters and clear, and    *)
(* the token generation pipeline of JSONWebToken::generateToken.           *)
(*                                                                         *)
(* Text is a sequence of byte values (ASCII codes), so that the JSON       *)
(* serialisation and the Base64 encoding are computed, not assumed.        *)
(***************************************************************************)
EXTENDS Integers, Sequences, FiniteSets, TLC

(***************************************************************************)
(* Text constants, as byte sequences.                                      *)
(***************************************************************************)
\* "alg", "typ", "cty", "kid": header keys (lines 72-73, 98-105)
ALG == <<97, 108, 103>>
TYP == <<116, 121, 112>>
CTY == <<99, 116, 121>>
KID == <<107, 105, 100>>
\* "iss", "aud", "jti", "iat", "exp", "nbf", "sub": payload keys (lines 142-149)
ISS == <<105, 115, 115>>
AUD == <<97, 117, 100>>
JTI == <<106, 116, 105>>
IAT == <<105, 97, 116>>
EXP == <<101, 120, 112>>
NBF == <<110, 98, 102>>
SUB == <<115, 117, 98>>
\* "RS256", "UNKNOWN": the results of toString (lines 135, 137)
TxtRS256 == <<82, 83, 50, 53, 54>>
TxtUNKNOWN == <<85, 78, 75, 78, 79, 87, 78>>
\* "HS256", "JWT", "a", "b", "c", "k" and ?"~ : inputs of the setters
TxtHS256 == <<72, 83, 50, 53, 54>>
TxtJWT == <<74, 87, 84>>
TxtA == <<97>>
TxtB == <<98>>
TxtC == <<99>>
TxtK == <<107>>
TxtQuote == <<63, 34, 126>>
\* a, line feed, byte 1, tab, e-acute in UTF-8
TxtCtl == <<97, 10, 1, 9, 195, 169>>
\* the byte 0xFF and a: not UTF-8
TxtBad == <<255, 97>>
\* "null", ".", " "
TxtNull == <<110, 117, 108, 108>>
TxtDot == <<46>>
TxtSpace == <<32>>

(***************************************************************************)
(* std::string comparison, the order of the keys of an ofJson object       *)
(* (a std::map<std::string, json>).                                        *)
(***************************************************************************)
RECURSIVE LexLess(_, _)
LexLess(a, b) ==
    IF b = <<>> THEN FALSE
    ELSE IF a = <<>> THEN TRUE
    ELSE IF Head(a) < Head(b) THEN TRUE
    ELSE IF Head(a) > Head(b) THEN FALSE
    ELSE LexLess(Tail(a), Tail(b))

(***************************************************************************)
(* JSON values held by a document: a string or an unsigned number.         *)
(***************************************************************************)
Str(s) == [t |-> "str", s |-> s, n |-> 0]
Num(n) == [t |-> "num", s |-> <<>>, n |-> n]

(***************************************************************************)
(* JSONWebTokenData::_data.  A default-constructed ofJson is null; the     *)
(* first set turns it into an object, whose members are kept in key order. *)
(***************************************************************************)
NullDoc == [null |-> TRUE, fields |-> <<>>]

\* _data.find(name): the position of the member, 0 for end().
Find(d, k) ==
    IF \E i \in 1..Len(d.fields) : d.fields[i].k = k
    THEN CHOOSE i \in 1..Len(d.fields) : d.fields[i].k = k
    ELSE 0

Has(d, k) == Find(d, k) # 0
Get(d, k) == d.fields[Find(d, k)].v
KeysOf(d) == {d.fields[i].k : i \in 1..Len(d.fields)}

\* set(name, value): _data[name] = value.
Set(d, k, v) ==
    LET f == d.fields
        i == Find(d, k)
        below == SelectSeq(f, LAMBDA e : LexLess(e.k, k))
        above == SelectSeq(f, LAMBDA e : LexLess(k, e.k))
    IN  IF i # 0
        THEN [null |-> FALSE, fields |-> [f EXCEPT ![i].v = v]]
        ELSE [null |-> FALSE, fields |-> below \o <<[k |-> k, v |-> v]>> \o above]

\* _data.erase(it) for an iterator that points to a member.
Erase(d, i) ==
    [d EXCEPT !.fields = SubSeq(d.fields, 1, i - 1)
                          \o SubSeq(d.fields, i + 1, Len(d.fields))]

(***************************************************************************)
(* ofJson::dump(): the compact serialisation.                              *)
(***************************************************************************)
RECURSIVE Digits(_)
Digits(n) == IF n < 10 THEN <<48 + n>> ELSE Digits(n \div 10) \o <<48 + (n % 10)>>

\* The result of a serialisation that throws (type_error 316 of
\* nlohmann::json 3.x, the library behind ofJson): no text holds a negative
\* byte.
Thrown == <<-1>>

\* Whether the bytes are well-formed UTF-8, as the serialiser's decoder
\* accepts them: no overlong form, no surrogate, nothing above U+10FFFF.
Cont(b) == b >= 128 /\ b <= 191

RECURSIVE ValidUtf8(_)
ValidUtf8(s) ==
    IF s = <<>> THEN TRUE
    ELSE LET b == s[1]
             n == Len(s)
         IN  IF b < 128 THEN ValidUtf8(Tail(s))
             ELSE IF b >= 194 /\ b <= 223
             THEN n >= 2 /\ Cont(s[2]) /\ ValidUtf8(SubSeq(s, 3, n))
             ELSE IF b >= 224 /\ b <= 239
             THEN /\ n >= 3 /\ Cont(s[2]) /\ Cont(s[3])
                  /\ (b = 224 => s[2] >= 160)
                  /\ (b = 237 => s[2] <= 159)
                  /\ ValidUtf8(SubSeq(s, 4, n))
             ELSE IF b >= 240 /\ b <= 244
             THEN /\ n >= 4 /\ Cont(s[2]) /\ Cont(s[3]) /\ Cont(s[4])
                  /\ (b = 240 => s[2] >= 144)
                  /\ (b = 244 => s[2] <= 143)
                  /\ ValidUtf8(SubSeq(s, 5, n))
             ELSE FALSE

HexDigit(n) == IF n < 10 THEN 48 + n ELSE 87 + n

\* One byte of a string as dump() writes it: the quote and the backslash
\* behind a backslash, backspace, tab, line feed, form feed and carriage
\* return by their letter, every other byte below 0x20 as \u00xx, the rest
\* as it is.
EscapeByte(b) ==
    IF b = 34 \/ b = 92 THEN <<92, b>>
    ELSE IF b = 8 THEN <<92, 98>>
    ELSE IF b = 9 THEN <<92, 116>>
    ELSE IF b = 10 THEN <<92, 110>>
    ELSE IF b = 12 THEN <<92, 102>>
    ELSE IF b = 13 THEN <<92, 114>>
    ELSE IF b < 32 THEN <<92, 117, 48, 48, HexDigit(b \div 16), HexDigit(b % 16)>>
    ELSE <<b>>

RECURSIVE EscapeBytes(_)
EscapeBytes(s) ==
    IF s = <<>> THEN <<>> ELSE EscapeByte(Head(s)) \o EscapeBytes(Tail(s))

Escape(s) == IF ValidUtf8(s) THEN EscapeBytes(s) ELSE Thrown

Quoted(s) == IF Escape(s) = Thrown THEN Thrown ELSE <<34>> \o Escape(s) \o <<34>>

DumpValue(v) == IF v.t = "str" THEN Quoted(v.s) ELSE Digits(v.n)

RECURSIVE DumpMembers(_)
DumpMembers(f) ==
    IF f = <<>> THEN <<>>
    ELSE IF \/ Quoted(Head(f).k) = Thrown
            \/ DumpValue(Head(f).v) = Thrown
            \/ DumpMembers(Tail(f)) = Thrown
    THEN Thrown
    ELSE Quoted(Head(f).k) \o <<58>> \o DumpValue(Head(f).v)
         \o (IF Len(f) > 1 THEN <<44>> ELSE <<>>) \o DumpMembers(Tail(f))

Dump(d) ==
    IF d.null THEN TxtNull
    ELSE IF DumpMembers(d.fields) = Thrown THEN Thrown
    ELSE <<123>> \o DumpMembers(d.fields) \o <<125>>

(***************************************************************************)
(* IO::Base64Encoding (ofxIO), by the interface of the codec: Base64       *)
(* without padding, in the URL-safe alphabet ('-' and '_' for 62 and 63)   *)
(* when urlSafe is set.                                                    *)
(***************************************************************************)
B64Char(i, urlSafe) ==
    IF i < 26 THEN 65 + i
    ELSE IF i < 52 THEN 97 + (i - 26)
    ELSE IF i < 62 THEN 48 + (i - 52)
    ELSE IF i = 62 THEN (IF urlSafe THEN 45 ELSE 43)
    ELSE (IF urlSafe THEN 95 ELSE 47)

RECURSIVE Base64Encode(_, _)
Base64Encode(b, urlSafe) ==
    IF Len(b) = 0 THEN <<>>
    ELSE IF Len(b) = 1 THEN
        <<B64Char(b[1] \div 4, urlSafe), B64Char((b[1] % 4) * 16, urlSafe)>>
    ELSE IF Len(b) = 2 THEN
        <<B64Char(b[1] \div 4, urlSafe),
          B64Char((b[1] % 4) * 16 + b[2] \div 16, urlSafe),
          B64Char((b[2] % 16) * 4, urlSafe)>>
    ELSE
        <<B64Char(b[1] \div 4, urlSafe),
          B64Char((b[1] % 4) * 16 + b[2] \div 16, urlSafe),
          B64Char((b[2] % 16) * 4 + b[3] \div 64, urlSafe),
          B64Char(b[3] % 64, urlSafe)>>
        \o Base64Encode(SubSeq(b, 4, Len(b)), urlSafe)

\* asBase64URLEncodedString without the URL-safe flag.
asBase64URLEncodedString_Standard(d) ==
    IF Dump(d) = Thrown THEN Thrown ELSE Base64Encode(Dump(d), FALSE)

\* JSONWebTokenData::asBase64URLEncodedString
asBase64URLEncodedString(d) ==
    IF Dump(d) = Thrown THEN Thrown ELSE Base64Encode(Dump(d), TRUE)


(***************************************************************************)
(* The typed setters of the header (lines 86-139).                         *)
(***************************************************************************)
\* JSONWebSignatureHeader::Algorithm, an enum class with the one value RS256
AlgRS256 == "RS256"
Algorithms == {AlgRS256, "other1", "other2"}

\* toString whose default case falls through to "RS256".
toString_AllRS256(algorithm) == TxtRS256

\* JSONWebSignatureHeader::toString
toString(algorithm) == IF algorithm = AlgRS256 THEN TxtRS256 ELSE TxtUNKNOWN

\* JSONWebTokenHeader::setType, setContentType
setHeaderType(d, type) == Set(d, TYP, Str(type))
setContentType(d, contentType) == Set(d, CTY, Str(contentType))
\* JSONWebSignatureHeader::setAlgorithm, setKeyId
setAlgorithm(d, algorithm) == Set(d, ALG, Str(toString(algorithm)))
setKeyId(d, keyId) == Set(d, KID, Str(keyId))

(***************************************************************************)
(* The typed setters of the payload (lines 163-234).                       *)
(***************************************************************************)
setIssuer(d, issuer) == Set(d, ISS, Str(issuer))
setAudienceString(d, audience) == Set(d, AUD, Str(audience))
setId(d, id) == Set(d, JTI, Str(id))
setIssuedAtTime(d, time) == Set(d, IAT, Num(time))
setExpirationTime(d, time) == Set(d, EXP, Num(time))
setNotBeforeTime(d, time) == Set(d, NBF, Num(time))
setPayloadType(d, type) == Set(d, TYP, Str(type))
setSubject(d, subject) == Set(d, SUB, Str(subject))

\* std::unique: of every run of equal adjacent elements, the first is kept.
RECURSIVE Unique(_)
Unique(a) ==
    IF Len(a) <= 1 THEN a
    ELSE IF a[1] = a[2] THEN Unique(Tail(a))
    ELSE <<a[1]>> \o Unique(Tail(a))

\* The loop of lines 179-187: the elements, a space before all but the first.
RECURSIVE JoinSpace(_)
JoinSpace(a) ==
    IF a = <<>> THEN <<>>
    ELSE IF Len(a) = 1 THEN a[1]
    ELSE a[1] \o TxtSpace \o JoinSpace(Tail(a))

\* JSONWebTokenPayload::setAudience(const std::vector<std::string>&)
setAudience(d, audience) == setAudienceString(d, JoinSpace(Unique(audience)))

(***************************************************************************)
(* JSONWebTokenData::clear: _data.erase(_data.find(name)).  The set of the *)
(* outcomes of the call.  On a null document erase throws; for a member    *)
(* that is absent find returns end() and erase(end()) is undefined: the    *)
(* call does not return (the process is aborted, or it spins in the tree). *)
(***************************************************************************)
\* clear that erases the range from the member to end().
clear_EraseRest(d, name) ==
    IF d.null THEN {[doc |-> d, outcome |-> "threw"]}
    ELSE IF Has(d, name)
    THEN {[doc |-> [d EXCEPT !.fields = SubSeq(d.fields, 1, Find(d, name) - 1)],
           outcome |-> "ok"]}
    ELSE {[doc |-> d, outcome |-> o] : o \in {"crashed", "hung"}}

clear(d, name) ==
    IF d.null THEN {[doc |-> d, outcome |-> "threw"]}
    ELSE IF Has(d, name) THEN {[doc |-> Erase(d, Find(d, name)), outcome |-> "ok"]}
    ELSE {[doc |-> d, outcome |-> o] : o \in {"crashed", "hung"}}

(***************************************************************************)
(* The capabilities generateToken calls (lines 264-275).  A private key    *)
(* text is named by what it holds: nothing, text that is no PEM key, a     *)
(* key, a key encrypted under the passphrase "pw", and a key whose modulus *)
(* is too short to sign a SHA-256 digest.                                  *)
(***************************************************************************)
KeyTexts == {"", "garbage", "pemA", "pemEnc", "pemTiny"}
Passphrases == {"", "pw"}
KeyInputs == KeyTexts \X Passphrases

\* Poco::Crypto::RSAKey(nullptr, &_privateKey, privateKeyPassphrase): whether
\* the constructor returns (it throws otherwise).
LoadKey(privateKey, privateKeyPassphrase) ==
    \/ privateKey \in {"pemA", "pemTiny"}
    \/ privateKey = "pemEnc" /\ privateKeyPassphrase = "pw"

KeyNumber(privateKey) ==
    CASE privateKey = "pemA" -> 17
      [] privateKey = "pemEnc" -> 101
      [] OTHER -> 3

RECURSIVE ByteSum(_)
ByteSum(b) == IF b = <<>> THEN 0 ELSE Head(b) + ByteSum(Tail(b))

\* Whether digestEngine.signature() returns (it throws otherwise).
CanSign(privateKey) == privateKey # "pemTiny"

\* digestEngine.update(input); digestEngine.signature(): bytes that depend on
\* the input and on the key alone (PKCS#1 v1.5 has no random padding).
Signature(input, privateKey) ==
    LET k == KeyNumber(privateKey)
        h == ByteSum(input)
    IN  <<(h * k) % 256, (h + Len(input) * k) % 256, (h \div 7 + k) % 256,
          (Len(input) + k) % 256>>

(***************************************************************************)
(* JSONWebToken::generateToken, by its steps.                              *)
(***************************************************************************)
\* Lines 242-256: the outcomes of the check of header.data()["alg"].  The
\* const operator[] throws on a null document; for an absent member it
\* dereferences end(), which is undefined: an assertion or a bad read aborts
\* the process, or the bytes read past the map are taken for the member: no
\* string or a string other than "RS256" (rejected), "RS256" (accepted), or
\* the tag of a string over bytes that are none, whose copy throws
\* std::length_error out of line 244 (threw).
\* The check as a deny-list: only the sentinel "UNKNOWN" is rejected.
CheckAlgorithm_DenyList(h) ==
    IF h.null THEN {"threw"}
    ELSE IF ~Has(h, ALG) THEN {"crashed", "threw", "rejected", "accepted"}
    ELSE IF Get(h, ALG).t # "str" THEN {"rejected"}
    ELSE IF Get(h, ALG).s = TxtUNKNOWN THEN {"rejected"}
    ELSE {"accepted"}

CheckAlgorithm(h) ==
    IF h.null THEN {"threw"}
    ELSE IF ~Has(h, ALG) THEN {"crashed", "threw", "rejected", "accepted"}
    ELSE IF Get(h, ALG).t # "str" THEN {"rejected"}
    ELSE IF Get(h, ALG).s # TxtRS256 THEN {"rejected"}
    ELSE {"accepted"}

\* The signing input with the payload first.
SigningInput_PayloadFirst(h, p) ==
    IF asBase64URLEncodedString(h) = Thrown \/ asBase64URLEncodedString(p) = Thrown
    THEN Thrown
    ELSE asBase64URLEncodedString(p) \o TxtDot \o asBase64URLEncodedString(h)

\* Lines 258-262: encodedHeaderAndClaims, or Thrown when a dump() throws.
SigningInput(h, p) ==
    IF asBase64URLEncodedString(h) = Thrown \/ asBase64URLEncodedString(p) = Thrown
    THEN Thrown
    ELSE asBase64URLEncodedString(h) \o TxtDot \o asBase64URLEncodedString(p)

\* Lines 277-283: the encoded signature appended to the signing input.
Assemble(encodedHeaderAndClaims, signature) ==
    encodedHeaderAndClaims \o TxtDot \o Base64Encode(signature, TRUE)

(***************************************************************************)
(* Bounds.                                                                 *)
(***************************************************************************)
\* The longest audience collection given to setAudience.
MaxAud == 4
\* The longest audience collection where the other setters run as well.
MaxDocAud == 2
\* Times are 0, 1000, ..., 1000 * MaxTime.
MaxTime == 1
\* The number of concurrent callers of generateToken.
NCallers == 2

Callers == 1..NCallers
Times == {1000 * i : i \in 0..MaxTime}
Strs == {TxtQuote, TxtCtl, TxtBad}
AudNames == {TxtA, TxtB, TxtC}
DocAudNames == {TxtA}

SeqsUpTo(S, n) == UNION {[1..m -> S] : m \in 0..n}

(***************************************************************************)
(* State.                                                                  *)
(***************************************************************************)
VARIABLES
    header,   \* the caller's JSONWebSignatureHeader (its _data)
    payload,  \* the caller's JSONWebTokenPayload (its _data)
    lastOp,   \* the last call on a document: its name, arguments and outcome
    alive,    \* FALSE once a call has aborted the process or never returns
    call      \* per caller: the position and the locals of its generateToken

vars == <<header, payload, lastOp, alive, call>>

NoOp == [op |-> "none", doc |-> "none", key |-> <<>>, val |-> Num(0),
         outcome |-> "ok", had |-> FALSE, arg |-> <<>>]

IdleCall == [pc |-> "idle", key |-> "", pass |-> "", check |-> "none",
             input |-> <<>>, sig |-> <<>>, result |-> <<>>, outcome |-> "none",
             loads |-> 0, signs |-> 0]

AllIdle == \A c \in Callers : call[c].pc = "idle"

Init ==
    /\ header = NullDoc
    /\ payload = NullDoc
    /\ lastOp = NoOp
    /\ alive = TRUE
    /\ call = [c \in Callers |-> IdleCall]

(***************************************************************************)
(* A completed setter call on one of the two documents.                    *)
(***************************************************************************)
Apply(which, op, k, v, d, arg) ==
    /\ alive
    /\ AllIdle
    /\ IF which = "header"
       THEN header' = d /\ UNCHANGED payload
       ELSE payload' = d /\ UNCHANGED header
    /\ lastOp' = [op |-> op, doc |-> which, key |-> k, val |-> v, outcome |-> "ok",
                  had |-> Has(IF which = "header" THEN header ELSE payload, k),
                  arg |-> arg]
    /\ UNCHANGED <<alive, call>>

SetType ==
    Apply("header", "setType", TYP, Str(TxtJWT), setHeaderType(header, TxtJWT), <<>>)
SetContentType ==
    Apply("header", "setContentType", CTY, Str(TxtJWT),
          setContentType(header, TxtJWT), <<>>)
SetAlgorithm ==
    \E a \in Algorithms :
        Apply("header", "setAlgorithm", ALG, Str(toString(a)),
              setAlgorithm(header, a), <<a>>)
SetKeyId ==
    Apply("header", "setKeyId", KID, Str(TxtK), setKeyId(header, TxtK), <<>>)
\* The public set(name, value) used directly on "alg".
SetRawAlgorithm ==
    \E v \in {Str(TxtHS256), Num(1)} :
        Apply("header", "set", ALG, v, Set(header, ALG, v), <<>>)

SetIssuer ==
    \E s \in Strs :
        Apply("payload", "setIssuer", ISS, Str(s), setIssuer(payload, s), <<>>)
SetAudienceString ==
    \E s \in {TxtA} :
        Apply("payload", "setAudienceString", AUD, Str(s),
              setAudienceString(payload, s), <<>>)
\* The value stored is what the claims about setAudience are about: it is
\* read back from the document, not recorded here.
SetAudience(names, n) ==
    \E a \in SeqsUpTo(names, n) :
        LET d == setAudience(payload, a)
        IN  Apply("payload", "setAudience", AUD, Get(d, AUD), d, a)
SetId ==
    \E s \in {TxtA} : Apply("payload", "setId", JTI, Str(s), setId(payload, s), <<>>)
SetIssuedAtTime ==
    \E t \in Times :
        Apply("payload", "setIssuedAtTime", IAT, Num(t),
              setIssuedAtTime(payload, t), <<>>)
SetExpirationTime ==
    \E t \in {1000 * MaxTime} :
        Apply("payload", "setExpirationTime", EXP, Num(t),
              setExpirationTime(payload, t), <<>>)
SetNotBeforeTime ==
    \E t \in {0} :
        Apply("payload", "setNotBeforeTime", NBF, Num(t),
              setNotBeforeTime(payload, t), <<>>)
SetPayloadType ==
    \E s \in {TxtJWT} :
        Apply("payload", "setType", TYP, Str(s), setPayloadType(payload, s), <<>>)
SetSubject ==
    \E s \in {TxtB} :
        Apply("payload", "setSubject", SUB, Str(s), setSubject(payload, s), <<>>)

(***************************************************************************)
(* clear(name) on one of the two documents, with each of its outcomes.     *)
(***************************************************************************)
ClearOn(which, d, k) ==
    /\ alive
    /\ AllIdle
    /\ \E r \in clear(d, k) :
        /\ IF which = "header"
           THEN header' = r.doc /\ UNCHANGED payload
           ELSE payload' = r.doc /\ UNCHANGED header
        /\ lastOp' = [op |-> "clear", doc |-> which, key |-> k, val |-> Num(0),
                      outcome |-> r.outcome, had |-> Has(d, k), arg |-> <<>>]
        /\ alive' = (r.outcome \in {"ok", "threw"})
    /\ UNCHANGED call

HeaderKeys == {ALG, TYP, CTY, KID}
PayloadKeys == {ISS, AUD, JTI, IAT, EXP, NBF, TYP, SUB}

ClearHeader == \E k \in HeaderKeys : ClearOn("header", header, k)
ClearPayload == \E k \in PayloadKeys : ClearOn("payload", payload, k)

(***************************************************************************)
(* generateToken(privateKey, privateKeyPassphrase, header, payload), run   *)
(* by caller c.  The documents are passed by const reference and are not   *)
(* written by their owner while a call runs.                               *)
(***************************************************************************)
Step(c, r) ==
    /\ call' = [call EXCEPT ![c] = r]
    /\ UNCHANGED <<header, payload, lastOp, alive>>

\* The call is entered with its arguments.
Enter(c, K) ==
    /\ alive
    /\ call[c].pc = "idle"
    /\ \E kp \in K :
        call' = [call EXCEPT ![c] = [IdleCall EXCEPT !.pc = "check",
                                                     !.key = kp[1],
                                                     !.pass = kp[2]]]
    /\ lastOp' = [NoOp EXCEPT !.op = "generateToken"]
    /\ UNCHANGED <<header, payload, alive>>

\* Lines 242-256.
CheckStep(c) ==
    /\ alive
    /\ call[c].pc = "check"
    /\ \E o \in CheckAlgorithm(header) :
        /\ call' = [call EXCEPT ![c] =
              CASE o = "accepted" -> [@ EXCEPT !.pc = "build", !.check = o]
                [] o = "rejected" -> [@ EXCEPT !.pc = "done", !.check = o,
                                               !.outcome = "returned", !.result = <<>>]
                [] OTHER -> [@ EXCEPT !.pc = "done", !.check = o, !.outcome = o]]
        /\ alive' = (o # "crashed")
    /\ UNCHANGED <<header, payload, lastOp>>

\* Lines 258-262: the signing input is built, or a dump() throws.
BuildStep(c) ==
    /\ alive
    /\ call[c].pc = "build"
    /\ Step(c, IF SigningInput(header, payload) = Thrown
               THEN [call[c] EXCEPT !.pc = "done", !.outcome = "threw"]
               ELSE [call[c] EXCEPT !.pc = "load",
                                    !.input = SigningInput(header, payload)])

\* LoadStep that goes on to sign when the key could not be loaded.
LoadStep_Fallback(c) ==
    /\ alive
    /\ call[c].pc = "load"
    /\ Step(c, [call[c] EXCEPT !.pc = "sign", !.loads = @ + 1])

\* Lines 264-268: the key is loaded, or the constructor throws.
LoadStep(c) ==
    /\ alive
    /\ call[c].pc = "load"
    /\ Step(c, IF LoadKey(call[c].key, call[c].pass)
               THEN [call[c] EXCEPT !.pc = "sign", !.loads = @ + 1]
               ELSE [call[c] EXCEPT !.pc = "done", !.loads = @ + 1,
                                    !.outcome = "threw"])

\* Lines 270-275: the signature of the signing input, or signature() throws.
SignStep(c) ==
    /\ alive
    /\ call[c].pc = "sign"
    /\ Step(c, IF CanSign(call[c].key)
               THEN [call[c] EXCEPT !.pc = "encode", !.signs = @ + 1,
                                    !.sig = Signature(call[c].input, call[c].key)]
               ELSE [call[c] EXCEPT !.pc = "done", !.signs = @ + 1,
                                    !.outcome = "threw"])

\* Lines 277-283.
EncodeStep(c) ==
    /\ alive
    /\ call[c].pc = "encode"
    /\ Step(c, [call[c] EXCEPT !.pc = "done", !.outcome = "returned",
                               !.result = Assemble(call[c].input, call[c].sig)])

\* The caller has taken the result (or caught the exception).
Leave(c) ==
    /\ alive
    /\ call[c].pc = "done"
    /\ Step(c, IdleCall)

(***************************************************************************)
(* Specifications.                                                         *)
(***************************************************************************)
\* The payload under all its setters and clear.
NextDoc ==
    \/ SetIssuer
    \/ SetAudienceString
    \/ SetAudience(DocAudNames, MaxDocAud)
    \/ SetId
    \/ SetIssuedAtTime
    \/ SetExpirationTime
    \/ SetNotBeforeTime
    \/ SetPayloadType
    \/ SetSubject
    \/ ClearPayload

SpecDoc == Init /\ [][NextDoc]_vars

\* setAudience on audience collections up to MaxAud long.
NextAud == SetAudience(AudNames, MaxAud)

SpecAud == Init /\ [][NextAud]_vars

\* One caller that fills the header and the payload and generates tokens.
GenKeys == KeyInputs

NextGen ==
    \/ SetType
    \/ SetContentType
    \/ SetAlgorithm
    \/ SetKeyId
    \/ SetRawAlgorithm
    \/ ClearHeader
    \/ SetIssuer
    \/ SetIssuedAtTime
    \/ Enter(1, GenKeys)
    \/ CheckStep(1)
    \/ BuildStep(1)
    \/ LoadStep(1)
    \/ SignStep(1)
    \/ EncodeStep(1)
    \/ Leave(1)

Spec == Init /\ [][NextGen]_vars

\* Concurrent callers of generateToken on a header and a payload that their
\* owner has filled before and leaves alone.
ConcKeys == {<<"pemA", "">>, <<"pemEnc", "pw">>, <<"garbage", "">>}

ConcHeaders ==
    {NullDoc,
     setAlgorithm(NullDoc, AlgRS256),
     setHeaderType(setAlgorithm(NullDoc, AlgRS256), TxtJWT),
     setHeaderType(NullDoc, TxtJWT),
     setAlgorithm(NullDoc, "other1")}

ConcPayloads ==
    {NullDoc,
     setIssuer(NullDoc, TxtA),
     setIssuedAtTime(setIssuer(NullDoc, TxtQuote), 1000)}

InitConc ==
    /\ header \in ConcHeaders
    /\ payload \in ConcPayloads
    /\ lastOp = NoOp
    /\ alive = TRUE
    /\ call = [c \in Callers |-> IdleCall]

NextConc ==
    \E c \in Callers :
        \/ Enter(c, ConcKeys)
        \/ CheckStep(c)
        \/ BuildStep(c)
        \/ LoadStep(c)
        \/ SignStep(c)
        \/ EncodeStep(c)
        \/ Leave(c)

SpecConc == InitConc /\ [][NextConc]_vars

(***************************************************************************)
(* What the claims are stated with.                                        *)
(***************************************************************************)
\* The value of a key in a document, or "absent".
Lookup(d, k) == IF Has(d, k) THEN Get(d, k) ELSE [t |-> "absent", s |-> <<>>, n |-> 0]

\* The number of members of a document with key k.
Occurrences(d, k) == Cardinality({i \in 1..Len(d.fields) : d.fields[i].k = k})

\* The header's alg is the string "RS256".
AlgIsRS256(h) == Lookup(h, ALG) = Str(TxtRS256)

\* A sequence without its repeated elements, each kept where it first appears.
RECURSIVE Distinct(_)
Distinct(a) ==
    IF a = <<>> THEN <<>>
    ELSE <<Head(a)>> \o Distinct(SelectSeq(Tail(a), LAMBDA x : x # Head(a)))

\* The segments of a text between its "." separators.
RECURSIVE SplitDot(_)
SplitDot(s) ==
    IF \E i \in 1..Len(s) : s[i] = 46
    THEN LET i == CHOOSE j \in 1..Len(s) : s[j] = 46 /\ \A m \in 1..(j - 1) : s[m] # 46
         IN  <<SubSeq(s, 1, i - 1)>> \o SplitDot(SubSeq(s, i + 1, Len(s)))
    ELSE <<s>>

\* A decoder of unpadded URL-safe Base64: the bytes, or <<-1>> for text that
\* is not in the alphabet or has an impossible length.
B64Value(c) ==
    IF c >= 65 /\ c <= 90 THEN c - 65
    ELSE IF c >= 97 /\ c <= 122 THEN c - 97 + 26
    ELSE IF c >= 48 /\ c <= 57 THEN c - 48 + 52
    ELSE IF c = 45 THEN 62
    ELSE IF c = 95 THEN 63
    ELSE -1

RECURSIVE DecodeValues(_)
DecodeValues(v) ==
    IF Len(v) = 0 THEN <<>>
    ELSE IF Len(v) = 1 THEN <<-1>>
    ELSE IF Len(v) = 2 THEN <<v[1] * 4 + v[2] \div 16>>
    ELSE IF Len(v) = 3 THEN <<v[1] * 4 + v[2] \div 16, (v[2] % 16) * 16 + v[3] \div 4>>
    ELSE <<v[1] * 4 + v[2] \div 16, (v[2] % 16) * 16 + v[3] \div 4,
           (v[3] % 4) * 64 + v[4]>> \o DecodeValues(SubSeq(v, 5, Len(v)))

Base64UrlDecode(s) ==
    IF (\E i \in 1..Len(s) : B64Value(s[i]) = -1) \/ Len(s) % 4 = 1
    THEN <<-1>>
    ELSE DecodeValues([i \in 1..Len(s) |-> B64Value(s[i])])

\* The key and passphrase of a call are accepted by the signing capability.
KeyAccepted(r) == LoadKey(r.key, r.pass) /\ CanSign(r.key)

Finished(c) == call[c].pc = "done"

(***************************************************************************)
(* The claims.                                                             *)
(***************************************************************************)
\* C1: a generateToken call whose header has no alg, an alg that is not a
\* string, or an alg other than "RS256" returns the empty string.
C1_FailClosed ==
    \A c \in Callers :
        Finished(c) /\ ~AlgIsRS256(header)
            => call[c].outcome = "returned" /\ call[c].result = <<>>

\* C2 as stated, for every payload: with alg = "RS256" and a key the signing
\* capability accepts, the token returned is encodeCompact(header) "."
\* encodeCompact(payload) "." and the encoded signature of the first two
\* joined by ".": two separators, three non-empty segments.
C2_TokenLayout ==
    \A c \in Callers :
        Finished(c) /\ AlgIsRS256(header) /\ KeyAccepted(call[c])
            => /\ call[c].outcome = "returned"
               /\ LET segs == SplitDot(call[c].result)
                  IN  /\ Len(segs) = 3
                      /\ \A i \in 1..3 : segs[i] # <<>>
                      /\ segs[1] = Base64Encode(Dump(header), TRUE)
                      /\ segs[2] = Base64Encode(Dump(payload), TRUE)
                      /\ segs[3] = Base64Encode(
                             Signature(segs[1] \o TxtDot \o segs[2], call[c].key), TRUE)

\* Whether every string of the two documents is UTF-8, so that dump()
\* serialises them.
Serialisable == Dump(header) # Thrown /\ Dump(payload) # Thrown

\* C2: with alg = "RS256", a key the signing capability accepts and a header
\* and a payload whose strings are all UTF-8, the token returned is
\* encodeCompact(header) "." encodeCompact(payload) "." and the encoded
\* signature of the first two joined by ".": two separators, three non-empty
\* segments.
C2_TokenLayoutUtf8 ==
    \A c \in Callers :
        Finished(c) /\ AlgIsRS256(header) /\ KeyAccepted(call[c]) /\ Serialisable
            => /\ call[c].outcome = "returned"
               /\ LET segs == SplitDot(call[c].result)
                  IN  /\ Len(segs) = 3
                      /\ \A i \in 1..3 : segs[i] # <<>>
                      /\ segs[1] = Base64Encode(Dump(header), TRUE)
                      /\ segs[2] = Base64Encode(Dump(payload), TRUE)
                      /\ segs[3] = Base64Encode(
                             Signature(segs[1] \o TxtDot \o segs[2], call[c].key), TRUE)

C2_Witness ==
    /\ Finished(1) /\ AlgIsRS256(header) /\ KeyAccepted(call[1])
    /\ call[1].key = "pemEnc"
    /\ Len(header.fields) >= 2 /\ Has(payload, IAT)
    /\ Lookup(payload, ISS) = Str(TxtCtl)
    /\ call[1].outcome = "returned"

\* C3: with alg = "RS256" and a key that is empty, malformed, given with the
\* wrong passphrase or unable to sign, the call ends in failure with no token
\* and no partial token; the key is loaded at most once, signing is tried at
\* most once and no signature of another kind is made.
C3_KeyFailureIsTerminal ==
    \A c \in Callers :
        Finished(c) /\ AlgIsRS256(header) /\ ~KeyAccepted(call[c])
            => /\ call[c].outcome \in {"threw", "returned"}
               /\ call[c].result = <<>>
               /\ call[c].sig = <<>>
               /\ call[c].loads <= 1
               /\ call[c].signs <= 1

C3_Witness ==
    /\ Finished(1) /\ AlgIsRS256(header)
    /\ call[1].key = "pemEnc" /\ call[1].pass = ""
    /\ call[1].outcome = "threw" /\ call[1].result = <<>>
    /\ call[1].loads = 1 /\ call[1].signs = 0

\* C4: setAudience(collection) stores under "aud" the single-space join of the
\* collection's distinct entries, each at the place of its first appearance.
C4_AudienceDistinct ==
    lastOp.op = "setAudience"
        => Lookup(payload, AUD) = Str(JoinSpace(Distinct(lastOp.arg)))

\* C5: clear(key) for a key that is absent does not fail and leaves the
\* mapping unchanged.
C5_ClearAbsentIsNoOp ==
    [][lastOp'.op = "clear" /\ ~lastOp'.had
           => lastOp'.outcome = "ok" /\ alive' /\ payload' = payload]_vars

\* C6: the first and the second segment of a returned token decode (URL-safe
\* Base64) to the compact serialisation of the header and of the payload.
C6_SegmentsDecode ==
    \A c \in Callers :
        Finished(c) /\ call[c].outcome = "returned" /\ call[c].result # <<>>
            => LET segs == SplitDot(call[c].result)
               IN  /\ Len(segs) >= 2
                   /\ Base64UrlDecode(segs[1]) = Dump(header)
                   /\ Base64UrlDecode(segs[2]) = Dump(payload)

C6_Witness ==
    /\ Finished(1) /\ call[1].outcome = "returned" /\ call[1].result # <<>>
    /\ Lookup(payload, ISS) = Str(TxtCtl)
    /\ ~Has(payload, IAT)
    /\ \E i \in 1..Len(call[1].result) : call[1].result[i] \in {45, 95}

\* C7: after setAlgorithm with an enum value other than RS256 the header's alg
\* is "UNKNOWN", and a generateToken call on a header whose alg is "UNKNOWN"
\* is rejected: it returns the empty string and nothing is loaded or signed.
C7_UnknownNeverSigned ==
    /\ lastOp.op = "setAlgorithm" /\ lastOp.arg # <<AlgRS256>>
           => Lookup(header, ALG) = Str(TxtUNKNOWN)
    /\ \A c \in Callers :
           Lookup(header, ALG) = Str(TxtUNKNOWN) /\ call[c].pc # "idle"
               => /\ call[c].pc \in {"check", "done"}
                  /\ call[c].loads = 0 /\ call[c].signs = 0
                  /\ call[c].input = <<>> /\ call[c].sig = <<>>
                  /\ call[c].result = <<>>
                  /\ Finished(c) => call[c].outcome = "returned"

C7_Witness ==
    /\ Lookup(header, ALG) = Str(TxtUNKNOWN)
    /\ Finished(1) /\ call[1].outcome = "returned" /\ call[1].result = <<>>
    /\ call[1].key = "pemA"

\* Two finished calls with the same key and passphrase (on the one header and
\* payload) have ended the same way with the same result.
SameResult ==
    \A c1, c2 \in Callers :
        /\ Finished(c1) /\ Finished(c2)
        /\ call[c1].key = call[c2].key /\ call[c1].pass = call[c2].pass
        => /\ call[c1].outcome = call[c2].outcome
           /\ call[c1].result = call[c2].result

\* C8: two generateToken calls with the same key, passphrase, header and
\* payload end the same way with the same result, whatever calls run beside
\* them, and no step of a call changes the header or the payload.
C8_FunctionOfArguments ==
    /\ []SameResult
    /\ [][header' = header /\ payload' = payload]_vars

\* C8 for the headers on which the algorithm check is defined (a header never
\* touched, or one that holds alg): this much of C8 the code satisfies.
C8_WhereCheckIsDefined ==
    /\ [](header.null \/ Has(header, ALG) => SameResult)
    /\ [][header' = header /\ payload' = payload]_vars

\* C9: each key occurs at most once; a setter leaves its key with the value
\* given and every other key as it was; clear of a present key removes the key
\* and leaves every other key as it was.
C9_KeysUniqueAndFramed ==
    [][LET k == lastOp'.key
           others == \A j \in PayloadKeys \ {k} :
                         Lookup(payload', j) = Lookup(payload, j)
       IN  /\ \A j \in PayloadKeys : Occurrences(payload', j) <= 1
           /\ Len(payload'.fields) = Cardinality(KeysOf(payload'))
           /\ lastOp'.op # "clear"
                  => /\ Lookup(payload', k) = lastOp'.val
                     /\ KeysOf(payload') = KeysOf(payload) \cup {k}
                     /\ others
           /\ lastOp'.op = "clear" /\ lastOp'.had
                  => /\ lastOp'.outcome = "ok"
                     /\ KeysOf(payload') = KeysOf(payload) \ {k}
                     /\ others]_vars

C9_Witness ==
    /\ lastOp.op = "clear" /\ lastOp.had /\ lastOp.outcome = "ok"
    /\ lastOp.key = IAT
    /\ Has(payload, AUD) /\ Has(payload, SUB) /\ Lookup(payload, ISS) = Str(TxtQuote)

\* C10: the signing input is built, the key loaded and the signature made only
\* in a call whose check has come first and has accepted, and where the header
\* has an alg member the check has accepted it for "RS256"; a call whose check
\* has rejected the alg has loaded and signed nothing and has built no signing
\* input and no output; the key is loaded before the signature is made.
C10_CheckPrecedesCrypto ==
    \A c \in Callers :
        /\ \/ call[c].pc \in {"build", "load", "sign", "encode"}
           \/ call[c].loads > 0 \/ call[c].signs > 0
           \/ call[c].input # <<>> \/ call[c].sig # <<>> \/ call[c].result # <<>>
           => /\ call[c].check = "accepted"
              /\ Has(header, ALG) => AlgIsRS256(header)
        /\ call[c].check = "rejected"
           => /\ call[c].pc = "done" /\ call[c].loads = 0 /\ call[c].signs = 0
              /\ call[c].input = <<>> /\ call[c].sig = <<>> /\ call[c].result = <<>>
        /\ call[c].pc = "load" => call[c].loads = 0 /\ call[c].signs = 0
        /\ call[c].pc = "sign" => call[c].loads = 1 /\ call[c].signs = 0
        /\ call[c].pc = "encode" => call[c].loads = 1 /\ call[c].signs = 1

C10_Witness ==
    /\ Finished(1) /\ Lookup(header, ALG) = Str(TxtHS256)
    /\ call[1].check = "rejected"
    /\ call[1].outcome = "returned" /\ call[1].result = <<>>
    /\ call[1].loads = 0 /\ call[1].signs = 0 /\ call[1].input = <<>>
    /\ call[1].key = "pemA"

=============================================================================
